---- MODULE Spec2Model ----
(***************************************************************************)
(* Pihu, the agentic interview component (src/unnamed/part_000, the full   *)
(* draft; src/app.jsx is an earlier draft of the same file).               *)
(*                                                                         *)
(* Texts are TLA+ strings.  The long literal prompts of the source are     *)
(* shortened ("...") where only their variable part matters.               *)
(* A JSON value is a tagged record [t, v]; an object is a sequence of      *)
(* <<key, value>> pairs in insertion order.                                *)
(***************************************************************************)
EXTENDS Integers, Sequences, FiniteSets, TLC

VARIABLES
    env,               \* the ambient configuration sources read at module load
    loaded,            \* the module's top-level code (lines 37-40) has run
    GROQ_API_URL,      \* line 39
    STATIC_API_KEY,    \* line 40
    messages,          \* useState, line 47
    candidateProfile,  \* line 56
    userInput,         \* line 57
    isThinking,        \* line 58
    devApiKey,         \* line 59
    diagnostics,       \* line 60
    lastTestResponse,  \* line 61
    hasRecognition,    \* recognitionRef.current is set (line 67)
    listening,         \* a one-shot recognition session is running
    speechQueue,       \* utterances handed to window.speechSynthesis
    ops,               \* every invocation of an async handler that got past its guard
    lastEvent,         \* the handler the last step ran
    nEvents            \* how many user events (clicks, keystrokes, utterances) there were

vars == <<env, loaded, GROQ_API_URL, STATIC_API_KEY, messages, candidateProfile,
          userInput, isThinking, devApiKey, diagnostics, lastTestResponse,
          hasRecognition, listening, speechQueue, ops, lastEvent, nEvents>>

----------------------------------------------------------------------------
(* Bounds *)

\* Operations started, and user events, in one session.
MaxOps == 2
MaxEvents == 4

----------------------------------------------------------------------------
(* Configuration resolution, lines 9-40 *)

MODEL == "openai/gpt-oss-120b"
DEFAULT_GROQ_API_URL == "https://api.groq.ai/v1/engines/gpt-oss-120b/completions"

\* A source is [present, url, key]: `present` says the object exists (is
\* truthy); url and key are its VITE_GROQ_API_URL and VITE_GROQ_API_KEY, ""
\* standing for a property that is missing or empty (both are falsy for the
\* || of lines 39-40).
NoSource == [present |-> FALSE, url |-> "", key |-> ""]

\* readImportMetaEnvSafely: import.meta.env when it is there, else undefined.
readImportMetaEnvSafely(e) == e.meta

\* getRuntimeEnv: the first source OBJECT that exists, whatever it holds.
getRuntimeEnv(e) ==
    IF readImportMetaEnvSafely(e).present THEN readImportMetaEnvSafely(e)
    ELSE IF e.hasWindow
         THEN IF e.ENV.present THEN e.ENV
              ELSE IF e.env_.present THEN e.env_
              ELSE e.win
         ELSE NoSource

Or(a, b) == IF a # "" THEN a ELSE b      \* JavaScript a || b on strings

ResolveUrl(e) == Or(getRuntimeEnv(e).url, DEFAULT_GROQ_API_URL)
ResolveKey(e) == Or(getRuntimeEnv(e).key, "")

\* Lines 37-40 run once, when the module is loaded.
LoadModule ==
    /\ ~loaded
    /\ loaded' = TRUE
    /\ GROQ_API_URL' = ResolveUrl(env)
    /\ STATIC_API_KEY' = ResolveKey(env)
    /\ lastEvent' = "load"
    /\ UNCHANGED nEvents
    /\ UNCHANGED <<env, messages, candidateProfile, userInput, isThinking,
                   devApiKey, diagnostics, lastTestResponse, hasRecognition,
                   listening, speechQueue, ops>>

----------------------------------------------------------------------------
(* Component state, lines 46-63 *)

NULL == "(null)"      \* the null of diagnostics and lastTestResponse

SystemText == "You are Pihu ... an agentic interview assistant ..."

\* uid(prefix): the random suffix is modelled by who made the message (the
\* operation, 0 for none) and its how-manieth message that is.
uid(prefix, op, n) == [prefix |-> prefix, op |-> op, n |-> n]

\* Variant: the transcript is not seeded with the system message.
InitialMessages_Empty == << >>

InitialMessages ==
    << [id |-> uid("sys", 0, 0), role |-> "system", text |-> SystemText] >>

----------------------------------------------------------------------------
(* JSON values and the text extraction of callGroq, lines 118-120 *)

Undef == [t |-> "undef", v |-> ""]
JNull == [t |-> "null", v |-> ""]
JStr(s) == [t |-> "str", v |-> s]
JNum(n) == [t |-> "num", v |-> n]
JArr(a) == [t |-> "arr", v |-> a]
JObj(pairs) == [t |-> "obj", v |-> pairs]

Nullish(x) == x.t \in {"undef", "null"}

\* x?.k : undefined on null/undefined, and on a value without property k.
Get(x, k) ==
    IF x.t = "obj" /\ \E i \in 1..Len(x.v) : x.v[i][1] = k
    THEN x.v[CHOOSE i \in 1..Len(x.v) : x.v[i][1] = k][2]
    ELSE Undef

\* x?.[0] : the first element of an array, the first character of a string.
First(x) ==
    IF x.t = "arr" /\ Len(x.v) > 0 THEN x.v[1]
    ELSE IF x.t = "str" /\ Len(x.v) > 0 THEN JStr(SubSeq(x.v, 1, 1))
    ELSE Undef

\* a ?? b
Coalesce(a, b) == IF Nullish(a) THEN b ELSE a

RECURSIVE Join(_, _)
Join(strs, sep) ==
    IF Len(strs) = 0 THEN ""
    ELSE IF Len(strs) = 1 THEN strs[1]
    ELSE strs[1] \o sep \o Join(Tail(strs), sep)

\* JSON.stringify of a parsed JSON value.
RECURSIVE Stringify(_)
Stringify(x) ==
    CASE x.t = "str" -> "\"" \o x.v \o "\""
      [] x.t = "num" -> ToString(x.v)
      [] x.t = "null" -> "null"
      [] x.t = "arr" -> "[" \o Join([i \in 1..Len(x.v) |-> Stringify(x.v[i])], ",") \o "]"
      [] x.t = "obj" ->
            "{" \o Join([i \in 1..Len(x.v) |->
                           "\"" \o x.v[i][1] \o "\":" \o Stringify(x.v[i][2])], ",") \o "}"
      [] OTHER -> "undefined"

\* String(x)
RECURSIVE JsString(_)
JsString(x) ==
    CASE x.t = "str" -> x.v
      [] x.t = "num" -> ToString(x.v)
      [] x.t = "null" -> "null"
      [] x.t = "arr" ->
            Join([i \in 1..Len(x.v) |->
                    IF Nullish(x.v[i]) THEN "" ELSE JsString(x.v[i])], ",")
      [] x.t = "obj" -> "[object Object]"
      [] OTHER -> "undefined"

\* Lines 119-120: data?.choices?.[0]?.text ?? data?.output ?? JSON.stringify(data)
\* Variant: the output field is looked at before the first choice's text.
ExtractText_OutputFirst(data) ==
    JsString(Coalesce(Get(data, "output"),
             Coalesce(Get(First(Get(data, "choices")), "text"),
                      JStr(Stringify(data)))))

ExtractText(data) ==
    JsString(Coalesce(Get(First(Get(data, "choices")), "text"),
             Coalesce(Get(data, "output"), JStr(Stringify(data)))))

AppInit ==
    /\ loaded = FALSE
    /\ GROQ_API_URL = ""
    /\ STATIC_API_KEY = ""
    /\ messages = InitialMessages
    /\ candidateProfile = ""
    /\ userInput = ""
    /\ isThinking = FALSE
    /\ devApiKey = ""
    /\ diagnostics = NULL
    /\ lastTestResponse = NULL
    /\ listening = FALSE
    /\ speechQueue = << >>
    /\ ops = << >>
    /\ lastEvent = "init"
    /\ nEvents = 0

----------------------------------------------------------------------------
(* Strings *)

IsSpace(c) == c \in {" ", "\n", "\t"}

\* Variant: the input is tested without trimming.
Trim_None(s) == s

\* String.prototype.trim
RECURSIVE Trim(_)
Trim(s) ==
    IF Len(s) = 0 THEN s
    ELSE IF IsSpace(SubSeq(s, 1, 1)) THEN Trim(SubSeq(s, 2, Len(s)))
    ELSE IF IsSpace(SubSeq(s, Len(s), Len(s))) THEN Trim(SubSeq(s, 1, Len(s) - 1))
    ELSE s

\* role.toUpperCase()
toUpperCase(role) ==
    CASE role = "system" -> "SYSTEM"
      [] role = "assistant" -> "ASSISTANT"
      [] role = "user" -> "USER"

\* messages.map((m) => `${m.role.toUpperCase()}: ${m.text}`).join("\n")
Conversation(msgs) ==
    Join([i \in 1..Len(msgs) |-> toUpperCase(msgs[i].role) \o ": " \o msgs[i].text], "\n")

----------------------------------------------------------------------------
(* The completion client, callGroq, lines 97-121 *)

\* Line 97: STATIC_API_KEY || devApiKey, computed at each render; a handler
\* keeps the value of the render that created it.
effectiveApiKey == Or(STATIC_API_KEY, devApiKey)

MissingKeyMsg ==
    "Missing GROQ API key. Set VITE_GROQ_API_KEY at build time or paste a key in Dev API Key."

NoReq == [url |-> "", auth |-> "", model |-> "", prompt |-> "", temperature |-> 0,
          max_tokens |-> 0]

\* Lines 102-111; the temperature is in tenths.
Request(key, prompt, temperature, max_tokens) ==
    [url |-> GROQ_API_URL, auth |-> "Bearer " \o key, model |-> MODEL,
     prompt |-> prompt, temperature |-> temperature, max_tokens |-> max_tokens]

\* What the network can answer: fetch rejects; a status that is not ok, with
\* its body text; a body that is not JSON, so that res.json() rejects; a JSON
\* body.
NoRes == [kind |-> "none", status |-> 0, text |-> "", data |-> Undef]
RejectRes == [kind |-> "reject", status |-> 0, text |-> "Failed to fetch", data |-> Undef]
StatusRes(status, body) == [kind |-> "status", status |-> status, text |-> body, data |-> Undef]
BadJsonRes == [kind |-> "badjson", status |-> 200, text |-> "Unexpected end of JSON input",
               data |-> Undef]
JsonRes(data) == [kind |-> "json", status |-> 200, text |-> "", data |-> data]

\* Variant: the error of a status that is not ok carries the body alone.
CallResult_BodyOnly(res) ==
    CASE res.kind = "json" -> [ok |-> TRUE, text |-> ExtractText(res.data)]
      [] OTHER -> [ok |-> FALSE, text |-> res.text]

\* Lines 113-120: what callGroq gives its caller for a response: the text
\* it returns, or the message of the error it throws.
CallResult(res) ==
    CASE res.kind = "json" -> [ok |-> TRUE, text |-> ExtractText(res.data)]
      [] res.kind = "status" ->
            [ok |-> FALSE,
             text |-> "GROQ API error: " \o ToString(res.status) \o " " \o res.text]
      [] OTHER -> [ok |-> FALSE, text |-> res.text]

----------------------------------------------------------------------------
(* Operations in flight *)

\* One record per invocation of an async handler: what its closure holds
\* (key), where it stands (pc), the request it waits on (req) and the
\* response that arrived for it (res), and what it did so far: callGroq
\* invocations (calls), network requests (fetches), messages appended (nmsg),
\* utterances spoken (spoken), and, when a call of its failed, which one
\* (failedAt).
NewOp(kind, key) ==
    [kind |-> kind, pc |-> "done", key |-> key, calls |-> 0, fetches |-> 0,
     req |-> NoReq, res |-> NoRes, planText |-> "", nmsg |-> 0, spoken |-> 0,
     outcome |-> "ok", failedAt |-> ""]

Msg(prefix, i, n, role, text) == [id |-> uid(prefix, i, n), role |-> role, text |-> text]

\* Variant: the new message is put first.
append_Prepend(msgs, m) == <<m>> \o msgs

\* Variant: the update is not functional, it extends the transcript of the
\* first render.
append_Stale(msgs, m) == Append(InitialMessages, m)

\* Variant: the new message takes the place of the last one.
append_Overwrite(msgs, m) ==
    IF msgs = << >> THEN <<m>> ELSE [msgs EXCEPT ![Len(msgs)] = m]

\* Line 95: append, a functional update of the current transcript.
append(msgs, m) == Append(msgs, m)

\* Variant: the failure's message is appended as it is.
ErrorMsg_NoPrefix(i, n, message) ==
    [id |-> uid("aerr", i, n), role |-> "assistant", text |-> message]

\* The catch clauses of lines 140-141, 157-158, 177-178.
ErrorMsg(i, n, message) == Msg("aerr", i, n, "assistant", "Error: " \o message)

\* Variant: line 100 is missing, the request is sent whatever the key.
Calling_NoKeyCheck(o, pc, prompt, temperature, max_tokens) ==
    [o EXCEPT !.calls = @ + 1, !.fetches = @ + 1, !.pc = pc, !.res = NoRes,
              !.req = [url |-> GROQ_API_URL, auth |-> "Bearer " \o o.key, model |-> MODEL,
                       prompt |-> prompt, temperature |-> temperature,
                       max_tokens |-> max_tokens]]

\* Variant: the request is sent a second time.
Calling_Retry(o, pc, prompt, temperature, max_tokens) ==
    IF o.key = ""
    THEN [o EXCEPT !.calls = @ + 1, !.pc = "done", !.outcome = "error",
                   !.failedAt = pc]
    ELSE [o EXCEPT !.calls = @ + 1, !.fetches = @ + 2, !.pc = pc, !.res = NoRes,
                   !.req = Request(o.key, prompt, temperature, max_tokens)]

\* callGroq invoked by operation o: line 100 throws without a key, else the
\* request of lines 102-111 is sent and the operation waits at pc.
Calling(o, pc, prompt, temperature, max_tokens) ==
    IF o.key = ""
    THEN [o EXCEPT !.calls = @ + 1, !.pc = "done", !.outcome = "error",
                   !.failedAt = pc]
    ELSE [o EXCEPT !.calls = @ + 1, !.fetches = @ + 1, !.pc = pc, !.res = NoRes,
                   !.req = Request(o.key, prompt, temperature, max_tokens)]

PlanPrompt(profile) ==
    "You are an expert interview designer. ... Candidate profile:\n" \o profile
\* Variant: the plan text is not put into the prompt.
FollowupsPrompt_WithoutPlan(planText) ==
    "From this plan, extract only the 3 follow-up clarifying questions in a numbered list. Plan was:\n"


FollowupsPrompt(planText) ==
    "From this plan, extract only the 3 follow-up clarifying questions in a numbered list. Plan was:\n"
        \o planText
AskNextPrompt(msgs) ==
    "You are the interviewer. ... Conversation messages:\n" \o Conversation(msgs)
        \o "\nIf the next step is to ask a rubric-based question, ... \n---\nRubric:"
EvalPrompt(msgs, text) ==
    "You are an interview evaluator. ... Conversation:\n" \o Conversation(msgs)
        \o "\nCANDIDATE_ANSWER: " \o text
TestPrompt == "Respond with 'groq-test-ok' to confirm connectivity and authentication."

\* Variant: the end of every utterance starts recognition.
speakText_AlwaysArm(queue, text, onEnd) ==
    Append(queue, [text |-> text, onEnd |-> "arm"])

\* Lines 80-88: speakText queues one utterance; onEnd says what its end does.
speakText(queue, text, onEnd) == Append(queue, [text |-> text, onEnd |-> onEnd])

----------------------------------------------------------------------------
(* Input fields, lines 228-246 and 294-296 *)

Profiles == {"", " ", "dev"}
Inputs == {"", " ", " ok "}
DevKeys == {"", "dk"}
Utterances == {"hi"}

setCandidateProfile(p) ==
    /\ loaded /\ p # candidateProfile
    /\ candidateProfile' = p
    /\ lastEvent' = "setCandidateProfile"
    /\ nEvents < MaxEvents /\ nEvents' = nEvents + 1
    /\ UNCHANGED <<env, loaded, GROQ_API_URL, STATIC_API_KEY, messages, userInput,
                   isThinking, devApiKey, diagnostics, lastTestResponse,
                   hasRecognition, listening, speechQueue, ops>>

setUserInput(t) ==
    /\ loaded /\ t # userInput
    /\ userInput' = t
    /\ lastEvent' = "setUserInput"
    /\ nEvents < MaxEvents /\ nEvents' = nEvents + 1
    /\ UNCHANGED <<env, loaded, GROQ_API_URL, STATIC_API_KEY, messages,
                   candidateProfile, isThinking, devApiKey, diagnostics,
                   lastTestResponse, hasRecognition, listening, speechQueue, ops>>

setDevApiKey(k) ==
    /\ loaded /\ k # devApiKey
    /\ devApiKey' = k
    /\ lastEvent' = "setDevApiKey"
    /\ nEvents < MaxEvents /\ nEvents' = nEvents + 1
    /\ UNCHANGED <<env, loaded, GROQ_API_URL, STATIC_API_KEY, messages,
                   candidateProfile, userInput, isThinking, diagnostics,
                   lastTestResponse, hasRecognition, listening, speechQueue, ops>>

----------------------------------------------------------------------------
(* The handlers up to their first await *)

\* Variant: the Start button is disabled on the profile alone.
StartDisabled_ProfileOnly(profile, thinking) == Trim(profile) = ""

\* Line 250: disabled={!candidateProfile.trim() || isThinking}.
StartDisabled(profile, thinking) == Trim(profile) = "" \/ thinking

\* Line 257: disabled={isThinking}.
AskNextDisabled(thinking) == thinking

\* Lines 123-130, and lines 140-144 when callGroq throws at once.  The guard
\* is the button's, line 250.
startAgenticInterview ==
    /\ loaded
    /\ ~StartDisabled(candidateProfile, isThinking)
    /\ Len(ops) < MaxOps
    /\ LET i == Len(ops) + 1
           m1 == append(messages, Msg("u", i, 1, "user",
                     "Start an agentic interview for candidate:\n" \o candidateProfile))
           o == Calling([NewOp("start", effectiveApiKey) EXCEPT !.nmsg = 1], "plan",
                        PlanPrompt(candidateProfile), 1, 400)
       IN IF o.pc = "done"
          THEN /\ messages' = append(m1, ErrorMsg(i, 2, MissingKeyMsg))
               /\ ops' = Append(ops, [o EXCEPT !.nmsg = 2])
               /\ isThinking' = FALSE
          ELSE /\ messages' = m1
               /\ ops' = Append(ops, o)
               /\ isThinking' = TRUE
    /\ lastEvent' = "startAgenticInterview"
    /\ nEvents < MaxEvents /\ nEvents' = nEvents + 1
    /\ UNCHANGED <<env, loaded, GROQ_API_URL, STATIC_API_KEY, candidateProfile,
                   userInput, devApiKey, diagnostics, lastTestResponse,
                   hasRecognition, listening, speechQueue>>

\* Lines 147-154, and 157-161 when callGroq throws at once.  The guard is
\* the button's, line 257.
handleAskNext ==
    /\ loaded
    /\ ~AskNextDisabled(isThinking)
    /\ Len(ops) < MaxOps
    /\ LET i == Len(ops) + 1
           o == Calling(NewOp("asknext", effectiveApiKey), "call",
                        AskNextPrompt(messages), 2, 400)
       IN IF o.pc = "done"
          THEN /\ messages' = append(messages, ErrorMsg(i, 1, MissingKeyMsg))
               /\ ops' = Append(ops, [o EXCEPT !.nmsg = 1])
               /\ isThinking' = FALSE
          ELSE /\ messages' = messages
               /\ ops' = Append(ops, o)
               /\ isThinking' = TRUE
    /\ lastEvent' = "handleAskNext"
    /\ nEvents < MaxEvents /\ nEvents' = nEvents + 1
    /\ UNCHANGED <<env, loaded, GROQ_API_URL, STATIC_API_KEY, candidateProfile,
                   userInput, devApiKey, diagnostics, lastTestResponse,
                   hasRecognition, listening, speechQueue>>

\* Variant: handleUserSubmit returns at once while the state is Thinking.
SubmitResult_Guarded(o, i, input, convo, base) ==
    IF Trim(input) = "" \/ isThinking
    THEN [ran |-> FALSE, messages |-> base, op |-> o, thinking |-> isThinking]
    ELSE LET text == Trim(input)
             m1 == append(base, Msg("u", i, o.nmsg + 1, "user", text))
             o1 == Calling([o EXCEPT !.nmsg = @ + 1], "call",
                           EvalPrompt(convo, text), 0, 250)
         IN IF o1.pc = "done"
            THEN [ran |-> TRUE,
                  messages |-> append(m1, ErrorMsg(i, o1.nmsg + 1, MissingKeyMsg)),
                  op |-> [o1 EXCEPT !.nmsg = @ + 1], thinking |-> FALSE]
            ELSE [ran |-> TRUE, messages |-> m1, op |-> o1, thinking |-> TRUE]

\* Variant: without the finally clause of lines 179-181.
SubmitResult_NoFinally(o, i, input, convo, base) ==
    IF Trim(input) = ""
    THEN [ran |-> FALSE, messages |-> base, op |-> o, thinking |-> isThinking]
    ELSE LET text == Trim(input)
             m1 == append(base, Msg("u", i, o.nmsg + 1, "user", text))
             o1 == Calling([o EXCEPT !.nmsg = @ + 1], "call",
                           EvalPrompt(convo, text), 0, 250)
         IN IF o1.pc = "done"
            THEN [ran |-> TRUE,
                  messages |-> append(m1, ErrorMsg(i, o1.nmsg + 1, MissingKeyMsg)),
                  op |-> [o1 EXCEPT !.nmsg = @ + 1], thinking |-> TRUE]
            ELSE [ran |-> TRUE, messages |-> m1, op |-> o1, thinking |-> TRUE]

\* handleUserSubmit, lines 164-174 (and 177-181 when callGroq throws at
\* once), as run by a closure holding userInput = input and messages =
\* convo, for operation o (number i), on the transcript base.  ran is FALSE
\* when line 165 returns.
SubmitResult(o, i, input, convo, base) ==
    IF Trim(input) = ""
    THEN [ran |-> FALSE, messages |-> base, op |-> o, thinking |-> isThinking]
    ELSE LET text == Trim(input)
             m1 == append(base, Msg("u", i, o.nmsg + 1, "user", text))
             o1 == Calling([o EXCEPT !.nmsg = @ + 1], "call",
                           EvalPrompt(convo, text), 0, 250)
         IN IF o1.pc = "done"
            THEN [ran |-> TRUE,
                  messages |-> append(m1, ErrorMsg(i, o1.nmsg + 1, MissingKeyMsg)),
                  op |-> [o1 EXCEPT !.nmsg = @ + 1], thinking |-> FALSE]
            ELSE [ran |-> TRUE, messages |-> m1, op |-> o1, thinking |-> TRUE]

\* The Send button and Ctrl+Enter, lines 298 and 306: handleUserSubmit of
\* the current render.
handleUserSubmit ==
    /\ loaded
    /\ LET i == Len(ops) + 1
           r == SubmitResult(NewOp("submit", effectiveApiKey), i, userInput,
                             messages, messages)
       IN IF r.ran
          THEN /\ Len(ops) < MaxOps
               /\ userInput' = ""
               /\ messages' = r.messages
               /\ ops' = Append(ops, r.op)
               /\ isThinking' = r.thinking
          ELSE UNCHANGED <<userInput, messages, ops, isThinking>>
    /\ lastEvent' = "handleUserSubmit"
    /\ nEvents < MaxEvents /\ nEvents' = nEvents + 1
    /\ UNCHANGED <<env, loaded, GROQ_API_URL, STATIC_API_KEY, candidateProfile,
                   devApiKey, diagnostics, lastTestResponse, hasRecognition,
                   listening, speechQueue>>

\* The render whose handleVoiceInput the recognition callback holds: the
\* effect of lines 65-78 runs once, after the first render.
MountClosure == [userInput |-> "", devApiKey |-> "", messages |-> InitialMessages]

\* recognition.onresult, lines 73-76, and handleVoiceInput, lines 184-188.
\* The session is not continuous and ends with its result.
handleVoiceInput(transcript) ==
    /\ loaded
    /\ listening
    /\ Len(ops) < MaxOps
    /\ LET i == Len(ops) + 1
           key == Or(STATIC_API_KEY, MountClosure.devApiKey)
           m1 == append(messages, Msg("u", i, 1, "user", transcript))
           r == SubmitResult([NewOp("voice", key) EXCEPT !.nmsg = 1], i,
                             MountClosure.userInput, MountClosure.messages, m1)
       IN /\ userInput' = ""
          /\ messages' = r.messages
          /\ ops' = Append(ops, r.op)
          /\ isThinking' = r.thinking
    /\ listening' = FALSE
    /\ lastEvent' = "handleVoiceInput"
    /\ nEvents < MaxEvents /\ nEvents' = nEvents + 1
    /\ UNCHANGED <<env, loaded, GROQ_API_URL, STATIC_API_KEY, candidateProfile,
                   devApiKey, diagnostics, lastTestResponse, hasRecognition,
                   speechQueue>>

\* Lines 190-198.
runDiagnostics ==
    /\ loaded
    /\ diagnostics' = Join(<<
          "import.meta.env available: "
              \o (IF readImportMetaEnvSafely(env).present THEN "yes" ELSE "no"),
          "window.__ENV present: " \o (IF env.ENV.present THEN "yes" ELSE "no"),
          "Detected GROQ_API_URL: " \o GROQ_API_URL,
          "Static API key present at build/runtime: "
              \o (IF STATIC_API_KEY # "" THEN "YES" ELSE "NO"),
          "Effective API key (static || dev): "
              \o (IF effectiveApiKey # "" THEN "YES" ELSE "NO") >>, "\n")
    /\ lastEvent' = "runDiagnostics"
    /\ nEvents < MaxEvents /\ nEvents' = nEvents + 1
    /\ UNCHANGED <<env, loaded, GROQ_API_URL, STATIC_API_KEY, messages,
                   candidateProfile, userInput, isThinking, devApiKey,
                   lastTestResponse, hasRecognition, listening, speechQueue, ops>>

NoKeyStatus ==
    "No API key configured (set VITE_GROQ_API_KEY or paste a Dev API Key). Test aborted."

\* Variant: line 201 is missing, the test relies on callGroq's own check.
TestAborted_Never(key) == FALSE

\* Line 201: the test is aborted without a key.
TestAborted(key) == key = ""

\* Lines 200-208.
runTestPrompt ==
    /\ loaded
    /\ IF TestAborted(effectiveApiKey)
       THEN /\ lastTestResponse' = NoKeyStatus
            /\ ops' = ops
       ELSE /\ Len(ops) < MaxOps
            /\ LET o == Calling(NewOp("test", effectiveApiKey), "call", TestPrompt, 0, 40)
               IN /\ ops' = Append(ops, o)
                  /\ lastTestResponse' =
                        IF o.pc = "done" THEN "Test failed: " \o MissingKeyMsg
                        ELSE "Running test prompt - waiting for response..."
    /\ lastEvent' = "runTestPrompt"
    /\ nEvents < MaxEvents /\ nEvents' = nEvents + 1
    /\ UNCHANGED <<env, loaded, GROQ_API_URL, STATIC_API_KEY, messages,
                   candidateProfile, userInput, isThinking, devApiKey, diagnostics,
                   hasRecognition, listening, speechQueue>>

\* Variant: Clear conversation also puts the state back to Idle.
clearConversation_Reset ==
    /\ loaded
    /\ messages' = << >>
    /\ isThinking' = FALSE
    /\ lastEvent' = "clearConversation"
    /\ nEvents < MaxEvents /\ nEvents' = nEvents + 1
    /\ UNCHANGED <<env, loaded, GROQ_API_URL, STATIC_API_KEY, candidateProfile,
                   userInput, devApiKey, diagnostics, lastTestResponse,
                   hasRecognition, listening, speechQueue, ops>>

\* The Clear Conversation button, line 263.
clearConversation ==
    /\ loaded
    /\ messages' = << >>
    /\ lastEvent' = "clearConversation"
    /\ nEvents < MaxEvents /\ nEvents' = nEvents + 1
    /\ UNCHANGED <<env, loaded, GROQ_API_URL, STATIC_API_KEY, candidateProfile,
                   userInput, isThinking, devApiKey, diagnostics, lastTestResponse,
                   hasRecognition, listening, speechQueue, ops>>

----------------------------------------------------------------------------
(* The network, and the handlers after an await *)

Responses ==
    { StatusRes(401, "denied"),
      JsonRes(JObj(<< <<"choices", JArr(<< JObj(<< <<"text", JStr("Q1")>> >>) >>)>> >>)) }

\* The completion service answers the request operation i waits on.
ServerResponds(i, res) ==
    /\ ops[i].pc # "done"
    /\ ops[i].res = NoRes
    /\ ops' = [ops EXCEPT ![i].res = res]
    /\ lastEvent' = "ServerResponds"
    /\ UNCHANGED nEvents
    /\ UNCHANGED <<env, loaded, GROQ_API_URL, STATIC_API_KEY, messages,
                   candidateProfile, userInput, isThinking, devApiKey, diagnostics,
                   lastTestResponse, hasRecognition, listening, speechQueue>>

Finished(o, outcome, n) ==
    [o EXCEPT !.pc = "done", !.outcome = outcome, !.nmsg = n,
              !.failedAt = IF outcome = "error" THEN o.pc ELSE ""]

\* Variant: a call is given up while it is outstanding (a timeout).
Resume_Timeout(i) ==
    /\ ops[i].pc # "done"
    /\ messages' = append(messages, ErrorMsg(i, ops[i].nmsg + 1, "timeout"))
    /\ ops' = [ops EXCEPT ![i] = Finished(ops[i], "error", ops[i].nmsg + 1)]
    /\ isThinking' = FALSE
    /\ lastEvent' = "Resume"
    /\ UNCHANGED nEvents
    /\ UNCHANGED <<env, loaded, GROQ_API_URL, STATIC_API_KEY, candidateProfile,
                   userInput, devApiKey, diagnostics, lastTestResponse,
                   hasRecognition, listening, speechQueue>>

\* The rest of callGroq (lines 113-120) and of the handler that awaited it,
\* up to its next await or its end.
Resume(i) ==
    /\ ops[i].pc # "done"
    /\ ops[i].res # NoRes
    /\ LET o == ops[i]
           r == CallResult(o.res)
           n == o.nmsg + 1
       IN CASE o.kind = "test" ->
                 \* lines 209-212
                 /\ lastTestResponse' =
                       IF r.ok THEN "OK - response:\n" \o r.text
                       ELSE "Test failed: " \o r.text
                 /\ speechQueue' =
                       IF r.ok THEN speakText(speechQueue, r.text, "none") ELSE speechQueue
                 /\ ops' = [ops EXCEPT ![i] =
                       [Finished(o, IF r.ok THEN "ok" ELSE "error", o.nmsg)
                          EXCEPT !.spoken = IF r.ok THEN @ + 1 ELSE @]]
                 /\ UNCHANGED <<messages, isThinking>>
            [] o.kind # "test" /\ ~r.ok ->
                 \* catch and finally: lines 140-144, 157-161, 177-181
                 /\ messages' = append(messages, ErrorMsg(i, n, r.text))
                 /\ ops' = [ops EXCEPT ![i] = Finished(o, "error", n)]
                 /\ isThinking' = FALSE
                 /\ UNCHANGED <<speechQueue, lastTestResponse>>
            [] o.kind = "start" /\ o.pc = "plan" /\ r.ok ->
                 \* lines 131-134
                 LET m1 == append(messages,
                               Msg("a", i, n, "assistant", "PLAN:\n" \o r.text))
                     o1 == Calling([o EXCEPT !.planText = r.text, !.nmsg = n],
                                   "followups", FollowupsPrompt(r.text), 1, 200)
                 IN IF o1.pc = "done"
                    THEN /\ messages' = append(m1, ErrorMsg(i, n + 1, MissingKeyMsg))
                         /\ ops' = [ops EXCEPT ![i] = [o1 EXCEPT !.nmsg = n + 1]]
                         /\ isThinking' = FALSE
                         /\ UNCHANGED <<speechQueue, lastTestResponse>>
                    ELSE /\ messages' = m1
                         /\ ops' = [ops EXCEPT ![i] = o1]
                         /\ UNCHANGED <<isThinking, speechQueue, lastTestResponse>>
            [] o.kind = "start" /\ o.pc = "followups" /\ r.ok ->
                 \* lines 135-139 and 143
                 /\ messages' = append(messages,
                       Msg("a", i, n, "assistant", "FOLLOW-UPS:\n" \o r.text))
                 /\ speechQueue' =
                       speakText(speechQueue, "Let's begin the interview. " \o r.text, "arm")
                 /\ ops' = [ops EXCEPT ![i] = [Finished(o, "ok", n) EXCEPT !.spoken = @ + 1]]
                 /\ isThinking' = FALSE
                 /\ UNCHANGED lastTestResponse
            [] o.kind = "asknext" /\ r.ok ->
                 \* lines 155-156 and 160
                 /\ messages' = append(messages, Msg("a", i, n, "assistant", r.text))
                 /\ speechQueue' = speakText(speechQueue, r.text, "arm")
                 /\ ops' = [ops EXCEPT ![i] = [Finished(o, "ok", n) EXCEPT !.spoken = @ + 1]]
                 /\ isThinking' = FALSE
                 /\ UNCHANGED lastTestResponse
            [] o.kind \in {"submit", "voice"} /\ r.ok ->
                 \* lines 175-176 and 180
                 /\ messages' = append(messages,
                       Msg("a", i, n, "assistant", "EVALUATION:\n" \o r.text))
                 /\ speechQueue' = speakText(speechQueue, r.text, "none")
                 /\ ops' = [ops EXCEPT ![i] = [Finished(o, "ok", n) EXCEPT !.spoken = @ + 1]]
                 /\ isThinking' = FALSE
                 /\ UNCHANGED lastTestResponse
    /\ lastEvent' = "Resume"
    /\ UNCHANGED nEvents
    /\ UNCHANGED <<env, loaded, GROQ_API_URL, STATIC_API_KEY, candidateProfile,
                   userInput, devApiKey, diagnostics, hasRecognition, listening>>

----------------------------------------------------------------------------
(* Voice, lines 63-88 and 268-273 *)

\* The browser is taken to provide window.speechSynthesis (speakText uses it
\* without a test); speech recognition is there or not (line 67).

\* recognitionRef.current?.start(): nothing without recognition; starting a
\* running session throws and leaves it running.
start(l) == l \/ hasRecognition

\* The Speak button, line 269.
speak ==
    /\ loaded
    /\ listening' = start(listening)
    /\ lastEvent' = "speak"
    /\ nEvents < MaxEvents /\ nEvents' = nEvents + 1
    /\ UNCHANGED <<env, loaded, GROQ_API_URL, STATIC_API_KEY, messages,
                   candidateProfile, userInput, isThinking, devApiKey, diagnostics,
                   lastTestResponse, hasRecognition, speechQueue, ops>>

\* utterance.onend, lines 84-86, of the utterance at the head of the queue.
SpeechEnds ==
    /\ speechQueue # << >>
    /\ speechQueue' = Tail(speechQueue)
    /\ listening' = IF Head(speechQueue).onEnd = "arm" THEN start(listening) ELSE listening
    /\ lastEvent' = "SpeechEnds"
    /\ UNCHANGED nEvents
    /\ UNCHANGED <<env, loaded, GROQ_API_URL, STATIC_API_KEY, messages,
                   candidateProfile, userInput, isThinking, devApiKey, diagnostics,
                   lastTestResponse, hasRecognition, ops>>

\* A session that ends without a result (silence, an error).
RecognitionEnds ==
    /\ listening
    /\ listening' = FALSE
    /\ lastEvent' = "RecognitionEnds"
    /\ UNCHANGED nEvents
    /\ UNCHANGED <<env, loaded, GROQ_API_URL, STATIC_API_KEY, messages,
                   candidateProfile, userInput, isThinking, devApiKey, diagnostics,
                   lastTestResponse, hasRecognition, speechQueue, ops>>

----------------------------------------------------------------------------
(* The specification *)

Src(u, k) == [present |-> TRUE, url |-> u, key |-> k]

\* The deployments of the main specification: nothing injected (a static
\* build without variables) and a build-time key.
Envs ==
    { [hasWindow |-> TRUE, meta |-> m, ENV |-> NoSource, env_ |-> NoSource,
       win |-> Src("", "")] : m \in {NoSource, Src("", "sk")} }

\* A browser without speech recognition is taken with the first deployment.
Init ==
    /\ env \in Envs
    /\ hasRecognition \in BOOLEAN
    /\ env.meta.present => hasRecognition
    /\ AppInit

Next ==
    \/ LoadModule
    \/ \E p \in Profiles : setCandidateProfile(p)
    \/ \E t \in Inputs : setUserInput(t)
    \/ \E k \in DevKeys : setDevApiKey(k)
    \/ startAgenticInterview
    \/ handleAskNext
    \/ handleUserSubmit
    \/ \E t \in Utterances : handleVoiceInput(t)
    \/ runDiagnostics
    \/ runTestPrompt
    \/ clearConversation
    \/ speak
    \/ SpeechEnds
    \/ RecognitionEnds
    \/ \E i \in 1..Len(ops), res \in Responses : ServerResponds(i, res)
    \/ \E i \in 1..Len(ops) : Resume(i)

Spec == Init /\ [][Next]_vars

\* The same program where every request is answered (by a response or by a
\* failure of the network) and the event loop runs every continuation that
\* is ready: fetch and await, lines 102-118.
SpecFair ==
    /\ Init /\ [][Next]_vars
    /\ \A i \in 1..MaxOps :
          WF_vars(/\ i <= Len(ops)
                  /\ \/ \E res \in Responses : ServerResponds(i, res)
                     \/ Resume(i))

----------------------------------------------------------------------------
(* Configuration resolution alone: every combination of sources, and the   *)
(* module's load.                                                          *)

\* What one source can hold: nothing, or either key, each with a value that
\* names the source.
Sources(name) ==
    {NoSource} \cup { Src(u, k) : u \in {"", name \o ".url"}, k \in {"", name \o ".key"} }

AllEnvs ==
    { [hasWindow |-> TRUE, meta |-> m, ENV |-> a, env_ |-> b, win |-> w] :
        m \in Sources("meta"), a \in Sources("__ENV"), b \in Sources("_env_"),
        w \in Sources("window") \ {NoSource} }
    \cup
    { [hasWindow |-> FALSE, meta |-> m, ENV |-> NoSource, env_ |-> NoSource,
       win |-> NoSource] : m \in Sources("meta") }

InitConfig ==
    /\ env \in AllEnvs
    /\ hasRecognition = TRUE
    /\ AppInit

NextConfig == LoadModule

SpecConfig == InitConfig /\ [][NextConfig]_vars

----------------------------------------------------------------------------
(* Text extraction alone: one call in flight, answered by any response,    *)
(* and the handler's resumption.                                           *)

\* An object of the fields that are there (Undef: the field is missing).
Fields(pairs) == JObj(SelectSeq(pairs, LAMBDA p : p[2] # Undef))

TextValues == {Undef, JNull, JStr("X"), JStr(""), JNum(7)}
MessageValues == {Undef, JObj(<< <<"content", JStr("Z")>> >>)}
ChoiceValues ==
    { Fields(<< <<"text", t>>, <<"message", m>> >>) : t \in TextValues, m \in MessageValues }
ChoicesValues ==
    {Undef, JNull, JArr(<< >>), JArr(<<JNull>>), JStr("s"),
     JArr(<< JObj(<< <<"text", JStr("X")>> >>), JObj(<< <<"text", JStr("W")>> >>) >>)}
    \cup { JArr(<<c>>) : c \in ChoiceValues }
OutputValues == {Undef, JNull, JStr("Y"), JStr(""), JNum(0)}

AllBodies ==
    { Fields(<< <<"choices", c>>, <<"output", o>> >>) : c \in ChoicesValues, o \in OutputValues }
    \cup {JNull, JStr("plain"), JNum(5), JArr(<< >>)}

AllResponses ==
    {RejectRes, BadJsonRes, StatusRes(401, "denied"), StatusRes(500, "")}
    \cup { JsonRes(d) : d \in AllBodies }

\* The session after: a dev key typed, then Ask Next or Run Test Prompt
\* clicked, and the service's answer arrived.
InitExtract ==
    /\ env \in { e \in Envs : ~e.meta.present }
    /\ hasRecognition = TRUE
    /\ loaded = TRUE
    /\ GROQ_API_URL = ResolveUrl(env)
    /\ STATIC_API_KEY = ResolveKey(env)
    /\ messages = InitialMessages
    /\ candidateProfile = ""
    /\ userInput = ""
    /\ devApiKey = "dk"
    /\ diagnostics = NULL
    /\ listening = FALSE
    /\ speechQueue = << >>
    /\ lastEvent = "ServerResponds"
    /\ nEvents = 2
    /\ \E kind \in {"asknext", "test"}, res \in AllResponses :
          /\ isThinking = (kind = "asknext")
          /\ lastTestResponse =
                IF kind = "test" THEN "Running test prompt - waiting for response..."
                ELSE NULL
          /\ ops = << [NewOp(kind, "dk") EXCEPT
                         !.pc = "call", !.calls = 1, !.fetches = 1, !.res = res,
                         !.req = IF kind = "test"
                                 THEN [url |-> DEFAULT_GROQ_API_URL, auth |-> "Bearer dk",
                                       model |-> MODEL, prompt |-> TestPrompt,
                                       temperature |-> 0, max_tokens |-> 40]
                                 ELSE [url |-> DEFAULT_GROQ_API_URL, auth |-> "Bearer dk",
                                       model |-> MODEL,
                                       prompt |-> AskNextPrompt(InitialMessages),
                                       temperature |-> 2, max_tokens |-> 400]] >>

NextExtract == \E i \in 1..Len(ops) : Resume(i)

SpecExtract == InitExtract /\ [][NextExtract]_vars

----------------------------------------------------------------------------
(* Properties *)

StartsWith(s, p) == Len(s) >= Len(p) /\ SubSeq(s, 1, Len(p)) = p
EndsWith(s, p) == Len(s) >= Len(p) /\ SubSeq(s, Len(s) - Len(p) + 1, Len(s)) = p
IsPrefix(s, t) == Len(s) <= Len(t) /\ SubSeq(t, 1, Len(s)) = s

\* The messages of operation i that are in the transcript, in its order.
OpMsgs(i) == SelectSeq(messages, LAMBDA m : m.id.op = i)
\* The first message of operation i is (still) in the transcript: no Clear
\* conversation came between it and now.
Kept(i) == \E k \in 1..Len(messages) : messages[k].id.op = i /\ messages[k].id.n = 1

\* Network requests sent so far.
RECURSIVE SumFetches(_)
SumFetches(os) == IF os = << >> THEN 0 ELSE Head(os).fetches + SumFetches(Tail(os))
FetchCount == SumFetches(ops)

\* C1: a start-interview operation has its plan call outstanding alone
\* (one call, nothing appended but the announcement); its second call carries
\* the text the plan call returned; it speaks only when it is done with both
\* calls returned; and when both succeeded it issued exactly two calls and the
\* transcript holds, in this order, its user announcement, its "PLAN:" message
\* and its "FOLLOW-UPS:" message.
C1_StartInterviewSequence ==
    \A i \in 1..Len(ops) :
        ops[i].kind = "start" =>
            LET o == ops[i] IN
            /\ o.calls \in {1, 2}
            /\ o.pc = "plan" => o.calls = 1 /\ o.nmsg = 1 /\ o.planText = ""
            /\ o.calls = 2 =>
                  /\ o.nmsg >= 2
                  /\ EndsWith(o.req.prompt, "Plan was:\n" \o o.planText)
                  /\ Kept(i) => OpMsgs(i)[2].text = "PLAN:\n" \o o.planText
            /\ o.spoken > 0 => o.pc = "done" /\ o.calls = 2 /\ o.outcome = "ok"
            /\ o.pc = "done" /\ o.outcome = "ok" =>
                  /\ o.calls = 2 /\ o.fetches = 2 /\ o.spoken = 1
                  /\ Kept(i) =>
                        /\ Len(OpMsgs(i)) = 3
                        /\ OpMsgs(i)[1].role = "user"
                        /\ StartsWith(OpMsgs(i)[1].text, "Start an agentic interview")
                        /\ OpMsgs(i)[2].role = "assistant"
                        /\ StartsWith(OpMsgs(i)[2].text, "PLAN:")
                        /\ OpMsgs(i)[3].role = "assistant"
                        /\ StartsWith(OpMsgs(i)[3].text, "FOLLOW-UPS:")

C1_Witness ==
    \E i \in 1..Len(ops) :
        /\ ops[i].kind = "start" /\ ops[i].pc = "done" /\ ops[i].outcome = "ok"
        /\ Kept(i) /\ Len(OpMsgs(i)) = 3
        /\ Len(speechQueue) > 0

\* The message of the failure of operation o's last call.
FailureOf(o) ==
    IF o.fetches < o.calls
    THEN "Missing GROQ API key. Set VITE_GROQ_API_KEY at build time or paste a key in Dev API Key."
    ELSE IF o.res.kind = "status"
         THEN "GROQ API error: " \o ToString(o.res.status) \o " " \o o.res.text
         ELSE o.res.text

\* C2: a start-interview operation whose plan call failed is over after that
\* one call, has appended its announcement and one assistant message "Error:
\* <failure message>" and nothing else, and no "PLAN:" or "FOLLOW-UPS:" message
\* of it is in the transcript.
C2_PlanCallFailure ==
    \A i \in 1..Len(ops) :
        ops[i].kind = "start" /\ ops[i].failedAt = "plan" =>
            LET o == ops[i] IN
            /\ o.pc = "done" /\ o.calls = 1 /\ o.fetches <= 1 /\ o.spoken = 0
            /\ o.nmsg = 2
            /\ \A k \in 1..Len(OpMsgs(i)) :
                  OpMsgs(i)[k].role = "assistant" =>
                      OpMsgs(i)[k].text = "Error: " \o FailureOf(o)
            /\ Kept(i) =>
                  /\ Len(OpMsgs(i)) = 2
                  /\ OpMsgs(i)[1].role = "user"
                  /\ OpMsgs(i)[2].role = "assistant"

C2_Witness ==
    \E i \in 1..Len(ops) :
        /\ ops[i].kind = "start" /\ ops[i].failedAt = "plan" /\ ops[i].fetches = 1
        /\ Kept(i) /\ Len(OpMsgs(i)) = 2

\* C3 as stated: whenever both credentials are empty, no network request has
\* been sent.
C3_NoRequestWhileNoCredential ==
    (loaded /\ STATIC_API_KEY = "" /\ devApiKey = "") => FetchCount = 0

\* C3, amended: an operation that holds no credential (both were empty when
\* it started) sends no network request, and, unless it is a voice utterance,
\* which calls nothing, it is over with the configuration error after one
\* call of the completion client.
C3_NoRequestWithoutCredential ==
    \A i \in 1..Len(ops) :
        ops[i].key = "" =>
            /\ ops[i].fetches = 0
            /\ ops[i].pc = "done"
            /\ ops[i].kind # "voice" =>
                  /\ ops[i].calls = 1 /\ ops[i].outcome = "error"
                  /\ Len(OpMsgs(i)) > 0 =>
                        OpMsgs(i)[Len(OpMsgs(i))].text =
                            "Error: Missing GROQ API key. Set VITE_GROQ_API_KEY at build time or paste a key in Dev API Key."

C3_Witness ==
    \E i \in 1..Len(ops) :
        /\ ops[i].key = "" /\ ops[i].kind \in {"start", "asknext", "submit"}
        /\ Len(OpMsgs(i)) > 0

\* C4: every step but Clear conversation leaves the transcript a prefix of
\* the new transcript; Clear conversation leaves it empty.
C4_TranscriptGrows ==
    [][ /\ lastEvent' = "clearConversation" => messages' = << >>
        /\ lastEvent' # "clearConversation" => IsPrefix(messages, messages') ]_vars

C4_Witness ==
    /\ lastEvent = "clearConversation"
    /\ messages = << >>
    /\ \E i \in 1..Len(ops) : ops[i].nmsg > 0

\* C5: Submit answer with an empty or whitespace-only input changes neither
\* the transcript, nor the input, nor the Thinking state, nor the operations
\* and their calls.
C5_BlankSubmitIsNoOp ==
    [][ (lastEvent' = "handleUserSubmit" /\ userInput \in {"", " ", "\t", " \n "})
            => UNCHANGED <<messages, userInput, isThinking, ops, speechQueue>> ]_vars

C5_Witness ==
    /\ lastEvent = "handleUserSubmit"
    /\ userInput = " "
    /\ Len(ops) < MaxOps

\* The text callGroq returned to operation i (Ask Next appends it as its
\* message, Run Test Prompt reports it after "OK - response:\n").
Returned(i) ==
    IF ops[i].kind = "test"
    THEN SubSeq(lastTestResponse, Len("OK - response:\n") + 1, Len(lastTestResponse))
    ELSE OpMsgs(i)[1].text

\* C6: on a successful response the caller gets the first choice's text
\* field when it is there (neither missing nor null), else the output field
\* when it is there, else the serialized body; never the missing value.
C6_ExtractionOrder ==
    \A i \in 1..Len(ops) :
        ops[i].pc = "done" /\ ops[i].res.kind = "json" =>
            LET d == ops[i].res.data
                t == Get(First(Get(d, "choices")), "text")
                out == Get(d, "output")
            IN /\ ops[i].outcome = "ok"
               /\ ~Nullish(t) => Returned(i) = JsString(t)
               /\ t.t = "str" => Returned(i) = t.v
               /\ Nullish(t) /\ ~Nullish(out) => Returned(i) = JsString(out)
               /\ Nullish(t) /\ out.t = "str" => Returned(i) = out.v
               /\ Nullish(t) /\ Nullish(out) => Returned(i) = Stringify(d)
               /\ Returned(i) # "undefined"

C6_Witness ==
    \E i \in 1..Len(ops) :
        /\ ops[i].pc = "done" /\ ops[i].res.kind = "json"
        /\ Get(ops[i].res.data, "choices") = JArr(<< JObj(<< <<"message", JObj(<< <<"content", JStr("Z")>> >>)>> >>) >>)
        /\ Get(ops[i].res.data, "output") = JStr("Y")
        /\ Returned(i) = "Y"

\* C7: for a successful response whose first choice has no text field but
\* has message.content = Z, the extracted text is Z.
C7_MessageContentSecond ==
    \A i \in 1..Len(ops) :
        ops[i].pc = "done" /\ ops[i].res.kind = "json" =>
            LET c == First(Get(ops[i].res.data, "choices")) IN
            (Nullish(Get(c, "text")) /\ Get(Get(c, "message"), "content") = JStr("Z"))
                => Returned(i) = "Z"

\* C8: Run Test Prompt with no effective credential sets the reported status
\* to the "No API key configured" text, and changes neither the transcript,
\* nor the Thinking state, nor the operations (it sends no request).
C8_TestWithoutCredential ==
    [][ (lastEvent' = "runTestPrompt" /\ STATIC_API_KEY = "" /\ devApiKey = "")
            => /\ StartsWith(lastTestResponse', "No API key configured")
               /\ UNCHANGED <<messages, isThinking, ops, speechQueue>> ]_vars

C8_Witness ==
    /\ lastEvent = "runTestPrompt"
    /\ STATIC_API_KEY = "" /\ devApiKey = ""
    /\ StartsWith(lastTestResponse, "No API key configured")

\* C9 as stated: whenever the transcript is not empty, its first message is
\* the system message.
C9_SystemMessageFirst == messages # << >> => messages[1].role = "system"

\* C9, amended: the transcript starts with the system message first, and
\* every step but Clear conversation that finds the system message first
\* leaves that same message first.
C9_SystemMessageUntilClear ==
    /\ messages # << >> /\ messages[1].role = "system"
    /\ [][ (messages # << >> /\ messages[1].role = "system"
              /\ lastEvent' # "clearConversation")
             => (messages' # << >> /\ messages'[1] = messages[1]) ]_vars

C9_Witness ==
    /\ Len(messages) >= 3
    /\ messages[1].role = "system"
    /\ \E i \in 1..Len(ops) : ops[i].pc = "done" /\ ops[i].nmsg >= 2

\* The first value in priority order that is not empty, else the default.
RECURSIVE FirstNonEmpty(_, _)
FirstNonEmpty(values, default) ==
    IF values = << >> THEN default
    ELSE IF Head(values) # "" THEN Head(values)
    ELSE FirstNonEmpty(Tail(values), default)

\* C10: each of the URL and the credential is the value of the first source
\* in priority order (build-time env, __ENV, _env_, the global object) that
\* has a non-empty value for that key, else the default URL and the empty
\* credential.
C10_PerKeyResolution ==
    loaded =>
        /\ GROQ_API_URL =
              FirstNonEmpty(<<env.meta.url, env.ENV.url, env.env_.url, env.win.url>>,
                            "https://api.groq.ai/v1/engines/gpt-oss-120b/completions")
        /\ STATIC_API_KEY =
              FirstNonEmpty(<<env.meta.key, env.ENV.key, env.env_.key, env.win.key>>, "")

----------------------------------------------------------------------------
(* Voice turns and failures *)

\* C11: the voice loop: a start-interview or ask-next operation that ended
\* with a reply has spoken it, and a recognized user reply (with a credential
\* there) has issued exactly one completion request, and is over only with
\* the reply to it appended after the user's message.
C11_VoiceLoop ==
    \A i \in 1..Len(ops) :
        /\ (ops[i].kind \in {"start", "asknext"} /\ ops[i].pc = "done"
                /\ ops[i].outcome = "ok") => ops[i].spoken = 1
        /\ (ops[i].kind = "voice" /\ ops[i].key # "") =>
              /\ ops[i].fetches = 1
              /\ ops[i].pc = "done" => ops[i].nmsg = 2

\* Operation i ends in failure with this step.
Fails(i) ==
    /\ ops'[i].outcome = "error"
    /\ i > Len(ops) \/ ops[i].pc # "done"

\* The error messages of operation i in the transcript msgs.
ErrorsOf(msgs, i) ==
    SelectSeq(msgs, LAMBDA m : m.id.op = i /\ m.id.prefix = "aerr")

\* C12 as stated: the step with which an operation of any of the four kinds
\* fails leaves, last in the transcript, the one assistant message of that
\* operation whose text is "Error: " and the failure's message, and leaves
\* the state Idle.
C12_FailureAppendedForAllFour ==
    [][ \A i \in 1..Len(ops') : Fails(i) =>
            /\ messages' # << >>
            /\ messages'[Len(messages')].role = "assistant"
            /\ messages'[Len(messages')].text = "Error: " \o FailureOf(ops'[i])
            /\ Len(ErrorsOf(messages', i)) = 1
            /\ ~isThinking' ]_vars

\* C12, amended: the step with which a start-interview, ask-next or
\* submit-answer operation fails appends, last, the one assistant message of
\* that operation whose text is "Error: " and the failure's message, and
\* leaves the state Idle; the step with which a self-test fails changes
\* neither the transcript nor the state and sets the test status to
\* "Test failed: " and the failure's message.
C12_FailureHandling ==
    [][ \A i \in 1..Len(ops') : Fails(i) =>
            IF ops'[i].kind = "test"
            THEN /\ UNCHANGED <<messages, isThinking>>
                 /\ lastTestResponse' = "Test failed: " \o FailureOf(ops'[i])
            ELSE /\ Len(messages') > Len(messages)
                 /\ messages'[Len(messages')].role = "assistant"
                 /\ messages'[Len(messages')].text = "Error: " \o FailureOf(ops'[i])
                 /\ Len(ErrorsOf(messages', i)) = 1
                 /\ ~isThinking' ]_vars

C12_Witness ==
    /\ lastEvent = "Resume"
    /\ ~isThinking
    /\ \E i \in 1..Len(ops) :
          /\ ops[i].kind = "asknext" /\ ops[i].outcome = "error" /\ ops[i].fetches = 1
          /\ messages # << >>
          /\ messages[Len(messages)].id = uid("aerr", i, 1)

\* C13: the step with which a start-interview, ask-next or submit-answer
\* operation fails leaves every message of the transcript where it was and
\* only adds to it: the error message last, and before it the user message
\* when the operation appended it with the same step; when the second call
\* of a start-interview fails, its announcement and its "PLAN:" message are
\* still the operation's first two messages, now followed by the error.
C13_NoRollback ==
    [][ \A i \in 1..Len(ops') : (Fails(i) /\ ops'[i].kind # "test") =>
            LET before == IF i > Len(ops) THEN 0 ELSE ops[i].nmsg
                added == ops'[i].nmsg - before
                last == Len(messages')
            IN /\ added \in {1, 2}
               /\ last = Len(messages) + added
               /\ \A k \in 1..Len(messages) : messages'[k] = messages[k]
               /\ messages'[last].id = uid("aerr", i, ops'[i].nmsg)
               /\ added = 2 =>
                     /\ messages'[last - 1].role = "user"
                     /\ messages'[last - 1].id.op = i
               /\ (ops'[i].failedAt = "followups" /\ Kept(i)) =>
                     /\ Len(OpMsgs(i)) = 2
                     /\ StartsWith(OpMsgs(i)[1].text, "Start an agentic interview")
                     /\ StartsWith(OpMsgs(i)[2].text, "PLAN:")
                     /\ OpMsgs(i)' = Append(OpMsgs(i), messages'[last]) ]_vars

C13_Witness ==
    /\ lastEvent = "Resume"
    /\ \E i \in 1..Len(ops) :
          /\ ops[i].kind = "start" /\ ops[i].failedAt = "followups"
          /\ Len(OpMsgs(i)) = 3
          /\ StartsWith(OpMsgs(i)[2].text, "PLAN:")
          /\ messages[Len(messages)] = OpMsgs(i)[3]
          /\ StartsWith(OpMsgs(i)[3].text, "Error: GROQ API error: 401")

----------------------------------------------------------------------------
(* The Thinking state *)

\* Operation i has a completion call in flight: it waits for the response,
\* or for its continuation to run on the response.
InFlight(i) == ops[i].pc # "done"

\* C14 as stated: in every reachable state a completion call is in flight
\* if and only if the state is Thinking.
C14_ThinkingIffInFlight ==
    isThinking <=> \E i \in 1..Len(ops) : InFlight(i)

\* C14, amended: the state is Thinking only while a call of a
\* start-interview, ask-next or submit-answer operation is in flight; it
\* goes from Idle to Thinking only with the step that starts such an
\* operation and sends its request, from Thinking to Idle only with a step
\* that ends such an operation, every step that ends such an operation
\* leaves it Idle, and Run self-test never changes it.
C14_ThinkingTracksOperations ==
    /\ [](isThinking => \E i \in 1..Len(ops) : ops[i].kind # "test" /\ InFlight(i))
    /\ [][ /\ (~isThinking /\ isThinking') =>
                /\ Len(ops') = Len(ops) + 1
                /\ ops'[Len(ops')].kind \in {"start", "asknext", "submit"}
                /\ ops'[Len(ops')].pc # "done"
                /\ ops'[Len(ops')].fetches = 1
           /\ (isThinking /\ ~isThinking') =>
                \E i \in 1..Len(ops') :
                    /\ ops'[i].kind # "test" /\ ops'[i].pc = "done"
                    /\ i > Len(ops) \/ InFlight(i)
           /\ \A i \in 1..Len(ops') :
                (/\ ops'[i].kind \in {"start", "asknext", "submit"}
                 /\ ops'[i].pc = "done"
                 /\ i > Len(ops) \/ InFlight(i)) => ~isThinking'
           /\ lastEvent' = "runTestPrompt" => UNCHANGED isThinking ]_vars

C14_Witness ==
    /\ isThinking
    /\ lastEvent = "runTestPrompt"
    /\ \E i, j \in 1..Len(ops) :
          /\ ops[i].kind = "submit" /\ InFlight(i)
          /\ ops[j].kind = "test" /\ InFlight(j)

----------------------------------------------------------------------------
(* Voice and typed answers *)

\* C15: a recognized utterance does what Submit answer does with the same
\* text typed: the operation has appended one user message, has called the
\* completion client exactly once, with an evaluation prompt that ends with
\* that text as the candidate's answer, and is over only with one assistant
\* message (the reply or the error) after the user's.
C15_VoiceAsTypedSubmit ==
    \A i \in 1..Len(ops) :
        ops[i].kind = "voice" =>
            /\ ops[i].calls = 1
            /\ ops[i].nmsg \in {1, 2}
            /\ Kept(i) =>
                  /\ OpMsgs(i)[1].role = "user"
                  /\ ops[i].fetches = 1 =>
                        EndsWith(ops[i].req.prompt,
                                 "CANDIDATE_ANSWER: " \o OpMsgs(i)[1].text)
                  /\ ops[i].pc = "done" =>
                        /\ Len(OpMsgs(i)) = 2
                        /\ OpMsgs(i)[2].role = "assistant"

----------------------------------------------------------------------------
(* The buttons' guard *)

\* C16: a start-interview or ask-next operation begins only with a step
\* taken in the Idle state, and a start-interview only with a candidate
\* profile that is not empty once trimmed.
C16_GuardedButtons ==
    [][ Len(ops') > Len(ops) =>
            LET kind == ops'[Len(ops')].kind IN
            /\ kind \in {"start", "asknext"} => ~isThinking
            /\ kind = "start" =>
                  /\ candidateProfile \notin {"", " "}
                  /\ Trim(candidateProfile) # "" ]_vars

C16_Witness ==
    /\ isThinking
    /\ Trim(candidateProfile) # ""
    /\ Len(ops) < MaxOps /\ nEvents < MaxEvents
    /\ \E i \in 1..Len(ops) : ops[i].kind = "start" /\ InFlight(i)

----------------------------------------------------------------------------
(* Overlapping operations *)

----------------------------------------------------------------------------
(* Calls that do not respond *)

\* Operation i waits for a response that has not come.
Outstanding(i) == InFlight(i) /\ ops[i].res = NoRes

\* C18 as stated: no step that leaves the call of a start-interview,
\* ask-next or submit-answer operation without a response takes the state
\* from Thinking to Idle.
C18_HungCallKeepsThinking ==
    [][ (isThinking /\ \E i \in 1..Len(ops) :
                          /\ ops[i].kind # "test" /\ Outstanding(i)
                          /\ ops'[i].res = NoRes)
            => isThinking' ]_vars

\* C18, amended: an operation whose call has no response is changed by
\* no step but the arrival of the response: it stays in flight, is not
\* given up and appends nothing; and a step that leaves its call without a
\* response takes the state from Thinking to Idle only by ending another
\* start-interview, ask-next or submit-answer operation.
C18_NoTimeoutNoCancel ==
    [][ \A i \in 1..Len(ops) : Outstanding(i) =>
            /\ ops'[i] # ops[i] =>
                  /\ lastEvent' = "ServerResponds"
                  /\ ops'[i] = [ops[i] EXCEPT !.res = ops'[i].res]
            /\ ops'[i] = ops[i] =>
                  /\ \A k \in 1..Len(messages') :
                        messages'[k].id.op = i => messages'[k].id.n <= ops[i].nmsg
                  /\ (isThinking /\ ~isThinking') =>
                        \E j \in 1..Len(ops') :
                            /\ j # i
                            /\ ops'[j].kind \in {"start", "asknext", "submit"}
                            /\ ops'[j].pc = "done"
                            /\ j > Len(ops) \/ InFlight(j) ]_vars

C18_Witness ==
    /\ ~isThinking
    /\ lastEvent = "Resume"
    /\ \E i, j \in 1..Len(ops) :
          /\ ops[i].kind \in {"start", "asknext", "submit"} /\ Outstanding(i)
          /\ ops[j].kind = "submit" /\ ops[j].pc = "done" /\ ops[j].fetches = 1

----------------------------------------------------------------------------
(* Termination *)

\* Operation o has sent each request once, has called the completion client
\* no more often than its kind does, and has called nothing after a failure.
NoRetry(o) ==
    /\ o.fetches <= o.calls
    /\ o.calls <= (IF o.kind = "start" THEN 2 ELSE 1)
    /\ o.failedAt # "" =>
          /\ o.pc = "done" /\ o.outcome = "error"
          /\ o.calls = (IF o.failedAt = "followups" THEN 2 ELSE 1)
          /\ o.fetches \in {o.calls - 1, o.calls}

\* C19: when every request is answered, every operation in flight is
\* eventually over and a Thinking state is eventually followed by Idle; an
\* operation is over at once after a configuration failure and after an
\* upstream failure alike, and no operation calls again after a failure or
\* sends a request twice.
C19_OperationsFinish ==
    /\ \A i \in 1..MaxOps :
          (i <= Len(ops) /\ InFlight(i)) ~> (i <= Len(ops) /\ ops[i].pc = "done")
    /\ isThinking ~> ~isThinking
    /\ [](\A i \in 1..Len(ops) : NoRetry(ops[i]))

C19_Witness ==
    /\ ~isThinking
    /\ \E i, j \in 1..Len(ops) :
          /\ ops[i].kind = "submit" /\ ops[i].pc = "done"
          /\ ops[i].outcome = "error" /\ ops[i].fetches = 0
          /\ ops[j].kind = "asknext" /\ ops[j].pc = "done"
          /\ ops[j].outcome = "error" /\ ops[j].fetches = 1

----------------------------------------------------------------------------
(* Arming speech recognition *)

\* Operation i speaks with this step.
Speaks(i) == ops'[i].spoken > (IF i > Len(ops) THEN 0 ELSE ops[i].spoken)

\* C20: recognition starts listening only with the Speak button or with the
\* end of an utterance whose callback arms it; utterances are queued only by
\* an operation that ends with a reply, with the arming callback when it is
\* a start-interview or an ask-next and without it otherwise (an evaluation,
\* a self-test), and queueing does not start recognition; a failing
\* operation queues nothing and starts nothing; and a recognition result
\* arrives only while recognition listens and ends the listening.
C20_RecognitionArming ==
    [][ /\ (~listening /\ listening') =>
             \/ lastEvent' = "speak"
             \/ /\ lastEvent' = "SpeechEnds"
                /\ Head(speechQueue).onEnd = "arm"
                /\ speechQueue' = Tail(speechQueue)
        /\ Len(speechQueue') > Len(speechQueue) =>
             \E i \in 1..Len(ops') :
                 /\ Speaks(i)
                 /\ ops'[i].pc = "done" /\ ops'[i].outcome = "ok"
                 /\ speechQueue' = Append(speechQueue, speechQueue'[Len(speechQueue')])
                 /\ speechQueue'[Len(speechQueue')].onEnd =
                       (IF ops'[i].kind \in {"start", "asknext"} THEN "arm" ELSE "none")
                 /\ UNCHANGED listening
        /\ \A i \in 1..Len(ops') :
             Fails(i) => UNCHANGED <<speechQueue, listening>>
        /\ lastEvent' = "handleVoiceInput" => (listening /\ ~listening') ]_vars

C20_Witness ==
    /\ listening
    /\ lastEvent = "SpeechEnds"
    /\ nEvents = 1
    /\ \E i \in 1..Len(ops) :
          /\ ops[i].kind = "asknext" /\ ops[i].pc = "done"
          /\ ops[i].outcome = "ok" /\ ops[i].spoken = 1

----------------------------------------------------------------------------
(* Concurrent appends, and Clear conversation *)

\* No Clear conversation took place: the system message is still first.
NotCleared == messages # << >> /\ messages[1].role = "system"

\* The messages the operations appended so far.
RECURSIVE SumAppended(_)
SumAppended(os) == IF os = << >> THEN 0 ELSE Head(os).nmsg + SumAppended(Tail(os))

\* C21: so long as no Clear conversation took place, the transcript holds
\* the system message and every message every operation appended, each
\* exactly once and those of one operation in the order it appended them,
\* whatever operations were in flight together.
C21_NoLostAppend ==
    NotCleared =>
        /\ Len(messages) = 1 + SumAppended(ops)
        /\ \A i \in 1..Len(ops) :
              /\ Len(OpMsgs(i)) = ops[i].nmsg
              /\ \A k \in 1..Len(OpMsgs(i)) : OpMsgs(i)[k].id.n = k

\* Two operations with a call each were in flight together: the reply to
\* the later one stands before the reply to the earlier one.
C21_Witness ==
    /\ NotCleared
    /\ \E i, j \in 1..Len(ops) :
          /\ i < j
          /\ ops[i].pc = "done" /\ ops[i].fetches >= 1
          /\ ops[j].pc = "done" /\ ops[j].fetches = 1
          /\ \E k, l \in 1..Len(messages) :
                /\ k < l
                /\ messages[k].id.op = j /\ messages[k].role = "assistant"
                /\ messages[l].id.op = i /\ messages[l].role = "assistant"

\* C22: Clear conversation can be taken in every state of the loaded
\* application (within the budget of user events); it empties the transcript
\* and changes neither the Thinking state, nor the operations and their
\* calls in flight, nor the profile, the input, the dev credential, the
\* speech queue or recognition; and a start-interview, ask-next or
\* submit-answer operation that ends after it appends its reply or error
\* last to the transcript as it is then, be it empty.
C22_ClearConversation ==
    /\ []((loaded /\ nEvents < MaxEvents) => ENABLED clearConversation)
    /\ [][ /\ lastEvent' = "clearConversation" =>
                /\ messages' = << >>
                /\ UNCHANGED <<isThinking, ops, candidateProfile, userInput,
                               devApiKey, speechQueue, listening, diagnostics,
                               lastTestResponse, GROQ_API_URL, STATIC_API_KEY>>
           /\ \A i \in 1..Len(ops) :
                (/\ ops[i].kind # "test" /\ InFlight(i)
                 /\ ops'[i].pc = "done") =>
                    /\ Len(messages') = Len(messages) + 1
                    /\ SubSeq(messages', 1, Len(messages)) = messages
                    /\ messages'[Len(messages')].id = uid(
                          IF ops'[i].outcome = "error" THEN "aerr" ELSE "a",
                          i, ops'[i].nmsg) ]_vars

\* An operation was in flight, with the state Thinking, when the transcript
\* was cleared, and its reply is now all the transcript holds.
C22_Witness ==
    /\ lastEvent = "Resume"
    /\ Len(messages) = 1
    /\ \E i \in 1..Len(ops) :
          /\ ops[i].kind = "submit" /\ ops[i].pc = "done" /\ ops[i].outcome = "ok"
          /\ messages[1].id = uid("a", i, 2)
          /\ StartsWith(messages[1].text, "EVALUATION:")

====
